---- MODULE Spec2Model ----
(***************************************************************************)
(* ProductLookupService: a bidirectional criteria <-> product id index.    *)
(* Two variants of the class exist in the repository:                      *)
(*   plain    - productLookup.js: the constructor takes the document and   *)
(*              builds two maps;                                           *)
(*   enriched - the Angular service: initialize(document) fills three      *)
(*              maps, getCriteriaByProductId resolves the addon tree.      *)
(* Strings that the code takes apart or compares (criteria keys, values,   *)
(* canonical keys, tree node ids) are sequences of one-character strings;  *)
(* product and addon ids, which the code only stores and compares for      *)
(* equality, are plain strings.                                            *)
(***************************************************************************)
EXTENDS Integers, Sequences, FiniteSets, TLC

VARIABLES
  variant,               \* "none" before construction, then "plain" or "enriched"
  data,                  \* this.data
  criteriaToProductId,   \* Map: canonical key -> product id
  productIdToCriteria,   \* Map: product id -> matchCriteria
  addonsMap,             \* Map: addon id -> addon (enriched variant)
  loaded,                \* history: the products registered so far, in order
  loadedAddons,          \* history: the ids of the addons registered so far
  call,                  \* the arguments of the last call of a pure function
  result                 \* what that call returned

vars == <<variant, data, criteriaToProductId, productIdToCriteria, addonsMap,
          loaded, loadedAddons, call, result>>

----------------------------------------------------------------------------
(* Bounds of the model *)

\* longest products sequence of a document
MaxProducts == 2
\* most products one service registers over all its initialize calls
MaxLoaded == 3
\* longest options sequence of a tree node
MaxOptions == 2

----------------------------------------------------------------------------
(* JavaScript values *)

\* undefined / a defined value, as a sequence of length 0 / 1
Undefined == <<>>
Some(v) == <<v>>
IsDefined(o) == o # <<>>
ValueOf(o) == o[1]

\* the outcome of a call: a returned value (maybe undefined) or a TypeError
Returned(v) == [kind |-> "return", value |-> v]
Raised == [kind |-> "throw", value |-> Undefined]
Absent == Returned(Undefined)
\* a call that has not been made yet
Pending == [kind |-> "pending", value |-> Undefined]

Str1(c) == <<c>>
EmptyStr == <<>>

\* UTF-16 code units of the characters used
CodeUnit(c) ==
  CASE c = "1" -> 49
    [] c = "2" -> 50
    [] c = ":" -> 58
    [] c = "a" -> 97
    [] c = "b" -> 98
    [] c = "|" -> 124

\* s < t in the order of Array.prototype.sort() without a comparator:
\* by UTF-16 code units, a proper prefix first
StrLess(s, t) ==
  \E i \in 1..Len(t) :
     /\ i - 1 <= Len(s)
     /\ \A j \in 1..(i - 1) : s[j] = t[j]
     /\ \/ i > Len(s)
        \/ CodeUnit(s[i]) < CodeUnit(t[i])

\* an object with string keys: its own properties in insertion order, as a
\* sequence of <<key, value>> with distinct keys (no key here is an integer
\* index, which Object.keys would list first)
ObjectKeys(obj) == [i \in 1..Len(obj) |-> obj[i][1]]

\* obj[key]
Prop(obj, key) ==
  IF \E i \in 1..Len(obj) : obj[i][1] = key
  THEN Some(obj[CHOOSE i \in 1..Len(obj) : obj[i][1] = key][2])
  ELSE Undefined

\* Object.entries(obj)
ObjectEntries(obj) == obj

\* obj[key] = value (an existing property keeps its place)
PropSet(obj, key, value) ==
  IF \E i \in 1..Len(obj) : obj[i][1] = key
  THEN [i \in 1..Len(obj) |-> IF obj[i][1] = key THEN <<key, value>> ELSE obj[i]]
  ELSE Append(obj, <<key, value>>)

\* Map.set that keeps the value of a key that is already there
MapSetKeepFirst(m, k, v) ==
  IF \E i \in 1..Len(m) : m[i][1] = k THEN m ELSE Append(m, <<k, v>>)

\* a Map: its entries in insertion order, the order forEach visits them in
MapGet(m, k) == Prop(m, k)
MapSet(m, k, v) == PropSet(m, k, v)

\* the keys left in insertion order
SortAsInserted(keys) == keys

\* Array.prototype.sort() of distinct strings
RECURSIVE SortInsert(_, _)
SortInsert(x, sorted) ==
  IF sorted = <<>> THEN <<x>>
  ELSE IF StrLess(x, Head(sorted)) THEN <<x>> \o sorted
  ELSE <<Head(sorted)>> \o SortInsert(x, Tail(sorted))

RECURSIVE Sort(_)
Sort(keys) ==
  IF keys = <<>> THEN <<>> ELSE SortInsert(Head(keys), Sort(Tail(keys)))

\* Array.prototype.join(sep) of an array of strings
RECURSIVE Join(_, _)
Join(parts, sep) ==
  IF parts = <<>> THEN EmptyStr
  ELSE IF Len(parts) = 1 THEN parts[1]
  ELSE parts[1] \o sep \o Join(Tail(parts), sep)

----------------------------------------------------------------------------
(* Key codec *)

generateCriteriaKey(criteria) ==
  LET keys == Sort(ObjectKeys(criteria))
  IN Join([i \in 1..Len(keys) |->
             keys[i] \o Str1(":") \o ValueOf(Prop(criteria, keys[i]))],
          Str1("|"))

----------------------------------------------------------------------------
(* Tree resolver *)

\* !v for a string-or-undefined v
Falsy(v) == ~IsDefined(v) \/ ValueOf(v) = EmptyStr

\* Array.prototype.find: the first element of arr that passes the test, or
\* undefined; passes[i] is the outcome of the test on arr[i]
ArrayFind(arr, passes) ==
  IF \E i \in 1..Len(arr) : passes[i]
  THEN Some(arr[CHOOSE i \in 1..Len(arr) :
                  passes[i] /\ \A j \in 1..(i - 1) : ~passes[j]])
  ELSE Undefined

\* traverseTree that takes the last option of the value instead of the first
RECURSIVE traverseTreeLastMatch(_, _, _)
traverseTreeLastMatch(node, criteria, selectedOptions) ==
  LET criteriaValue == Prop(criteria, node.id)
      matching == SelectSeq(node.options, LAMBDA opt : opt.value = ValueOf(criteriaValue))
      option == matching[Len(matching)]
  IN IF Falsy(criteriaValue) THEN selectedOptions
     ELSE IF matching = <<>> THEN selectedOptions
     ELSE LET recorded == PropSet(selectedOptions, node.id, option)
          IN IF IsDefined(option.children)
             THEN traverseTreeLastMatch(ValueOf(option.children), criteria, recorded)
             ELSE recorded

\* the selectedOptions object after traverseTree(node, criteria, selectedOptions)
RECURSIVE traverseTree(_, _, _)
traverseTree(node, criteria, selectedOptions) ==
  LET criteriaValue == Prop(criteria, node.id)
      option == ArrayFind(node.options,
                          [i \in 1..Len(node.options) |->
                             node.options[i].value = ValueOf(criteriaValue)])
  IN IF Falsy(criteriaValue) THEN selectedOptions
     ELSE IF ~IsDefined(option) THEN selectedOptions
     ELSE LET recorded == PropSet(selectedOptions, node.id, ValueOf(option))
          IN IF IsDefined(ValueOf(option).children)
             THEN traverseTree(ValueOf(ValueOf(option).children), criteria, recorded)
             ELSE recorded

----------------------------------------------------------------------------
(* Catalog index *)

EmptyMap == <<>>

\* the forEach over attributes.addons: <<addonsMap>> after it
RECURSIVE RegisterAddons(_, _)
RegisterAddons(addons, map) ==
  IF addons = <<>> THEN map
  ELSE RegisterAddons(Tail(addons), MapSet(map, Head(addons).id, Head(addons)))

\* the forEach over products with criteriaToProductId.set only for a new key
RECURSIVE RegisterProductsKeepFirstKey(_, _, _)
RegisterProductsKeepFirstKey(products, idToCriteria, criteriaToId) ==
  IF products = <<>> THEN <<idToCriteria, criteriaToId>>
  ELSE RegisterProductsKeepFirstKey(
         Tail(products),
         MapSet(idToCriteria, Head(products).id, Head(products).matchCriteria),
         MapSetKeepFirst(criteriaToId,
                         generateCriteriaKey(Head(products).matchCriteria),
                         Head(products).id))

\* the forEach over products that skips a product whose id is registered
RECURSIVE RegisterProductsSkipKnownId(_, _, _)
RegisterProductsSkipKnownId(products, idToCriteria, criteriaToId) ==
  IF products = <<>> THEN <<idToCriteria, criteriaToId>>
  ELSE IF IsDefined(MapGet(idToCriteria, Head(products).id))
  THEN RegisterProductsSkipKnownId(Tail(products), idToCriteria, criteriaToId)
  ELSE RegisterProductsSkipKnownId(
         Tail(products),
         MapSet(idToCriteria, Head(products).id, Head(products).matchCriteria),
         MapSet(criteriaToId,
                generateCriteriaKey(Head(products).matchCriteria),
                Head(products).id))

\* the forEach over attributes.products:
\* <<productIdToCriteria, criteriaToProductId>> after it
RECURSIVE RegisterProducts(_, _, _)
RegisterProducts(products, idToCriteria, criteriaToId) ==
  IF products = <<>> THEN <<idToCriteria, criteriaToId>>
  ELSE LET id == Head(products).id
           matchCriteria == Head(products).matchCriteria
           criteriaKey == generateCriteriaKey(matchCriteria)
       IN RegisterProducts(Tail(products),
                           MapSet(idToCriteria, id, matchCriteria),
                           MapSet(criteriaToId, criteriaKey, id))

----------------------------------------------------------------------------
(* Queries, as functions of the service's state *)

getProductIdByCriteria(criteria) ==
  Returned(MapGet(criteriaToProductId, generateCriteriaKey(criteria)))

\* the plain variant
getCriteriaPlain(productId) ==
  Returned(MapGet(productIdToCriteria, productId))

\* the enriched variant taking matchCriteria from the product record it finds
getCriteriaEnrichedOfFoundProduct(productId) ==
  LET matchCriteria == MapGet(productIdToCriteria, productId)
      product == ArrayFind(ValueOf(data).products,
                           [i \in 1..Len(ValueOf(data).products) |->
                              ValueOf(data).products[i].id = productId])
      addon == MapGet(addonsMap, ValueOf(product).addonType)
  IN IF ~IsDefined(matchCriteria) THEN Absent
     ELSE IF ~ValueOf(data).hasProducts THEN Raised
     ELSE IF ~IsDefined(product) THEN Absent
     ELSE IF ~IsDefined(addon) THEN Absent
     ELSE Returned(Some(
            [productId |-> productId,
             addonType |-> ValueOf(product).addonType,
             matchCriteria |-> ValueOf(product).matchCriteria,
             selectedOptions |->
               traverseTree(ValueOf(addon).tree, ValueOf(product).matchCriteria, <<>>),
             addon |-> ValueOf(addon)]))

\* the enriched variant
getCriteriaEnriched(productId) ==
  LET matchCriteria == MapGet(productIdToCriteria, productId)
      product == ArrayFind(ValueOf(data).products,
                           [i \in 1..Len(ValueOf(data).products) |->
                              ValueOf(data).products[i].id = productId])
      addon == MapGet(addonsMap, ValueOf(product).addonType)
  IN IF ~IsDefined(matchCriteria) THEN Absent
     ELSE IF ~ValueOf(data).hasProducts THEN Raised
     ELSE IF ~IsDefined(product) THEN Absent
     ELSE IF ~IsDefined(addon) THEN Absent
     ELSE Returned(Some(
            [productId |-> productId,
             addonType |-> ValueOf(product).addonType,
             matchCriteria |-> ValueOf(matchCriteria),
             selectedOptions |->
               traverseTree(ValueOf(addon).tree, ValueOf(matchCriteria), <<>>),
             addon |-> ValueOf(addon)]))

getCriteriaByProductId(productId) ==
  IF variant = "enriched" THEN getCriteriaEnriched(productId)
  ELSE getCriteriaPlain(productId)

\* the plain variant's getAllProducts
getAllProducts ==
  [i \in 1..Len(productIdToCriteria) |->
     [id |-> productIdToCriteria[i][1], criteria |-> productIdToCriteria[i][2]]]

\* the test with one equal entry being enough
PartialMatchesAny(criteria, partialCriteria) ==
  \E e \in 1..Len(ObjectEntries(partialCriteria)) :
     Prop(criteria, ObjectEntries(partialCriteria)[e][1])
       = Some(ObjectEntries(partialCriteria)[e][2])

\* the test of the inner loop of searchByPartialCriteria
PartialMatches(criteria, partialCriteria) ==
  \A e \in 1..Len(ObjectEntries(partialCriteria)) :
     Prop(criteria, ObjectEntries(partialCriteria)[e][1])
       = Some(ObjectEntries(partialCriteria)[e][2])

\* the plain variant's searchByPartialCriteria
searchByPartialCriteria(partialCriteria) ==
  SelectSeq(getAllProducts, LAMBDA r : PartialMatches(r.criteria, partialCriteria))

----------------------------------------------------------------------------
(* Documents *)

KeyA == Str1("a")
KeyB == Str1("b")
Val1 == Str1("1")
Val2 == Str1("2")
\* a value that contains both separators of the canonical key
ValJoined == <<"1", "|", "b", ":", "2">>

SeqsUpTo(S, n) == UNION {[1..k -> S] : k \in 0..n}

\* {a: "1", b: "2"}, {a: "1|b:2"} (the same canonical key), {a: "1"}
CriteriaAB == <<<<KeyA, Val1>>, <<KeyB, Val2>>>>
CriteriaJoined == <<<<KeyA, ValJoined>>>>
CriteriaA == <<<<KeyA, Val1>>>>

Option(value, label, children) ==
  [value |-> value, label |-> label, children |-> children]
Node(id, options) == [id |-> id, options |-> options]

\* a -> ("1": b -> ("2")), ("2")
FwTree ==
  Node(KeyA, <<Option(Val1, "A1", Some(Node(KeyB, <<Option(Val2, "B2", Undefined)>>))),
               Option(Val2, "A2", Undefined)>>)
\* b -> ("2")
VpnTree == Node(KeyB, <<Option(Val2, "B2", Undefined)>>)
FwAddon == [id |-> "fw", tree |-> FwTree]
VpnAddon == [id |-> "vpn", tree |-> VpnTree]

\* the addons arrays of the documents
AddonLists == {<<>>, <<FwAddon>>, <<VpnAddon>>}

Product(id, addonType, matchCriteria) ==
  [id |-> id, addonType |-> addonType, matchCriteria |-> matchCriteria]

\* the product records of the documents: two ids, two addon types, three
\* criteria of which two have the same canonical key
Products ==
  { Product("p1", "fw", CriteriaAB), Product("p2", "fw", CriteriaJoined),
    Product("p1", "vpn", CriteriaA), Product("p2", "vpn", CriteriaAB) }
ProductIds == {p.id : p \in Products}

Document(hasAddons, addons, hasProducts, products) ==
  [hasAddons |-> hasAddons, addons |-> addons,
   hasProducts |-> hasProducts, products |-> products]

\* jsonData.attributes: addons and products are arrays, or are missing
Documents ==
  { Document(a[1], a[2], p[1], p[2]) :
      a \in {<<FALSE, <<>>>>} \cup {<<TRUE, l>> : l \in AddonLists},
      p \in {<<FALSE, <<>>>>} \cup {<<TRUE, l>> : l \in SeqsUpTo(Products, MaxProducts)} }

----------------------------------------------------------------------------
(* The service *)

NoCall == <<>>

Init ==
  /\ variant = "none"
  /\ data = Undefined
  /\ criteriaToProductId = EmptyMap
  /\ productIdToCriteria = EmptyMap
  /\ addonsMap = EmptyMap
  /\ loaded = <<>>
  /\ loadedAddons = {}
  /\ call = NoCall
  /\ result = Absent

\* the products / addon ids that initialize registers from a document
ProductsOf(jsonData) == IF jsonData.hasProducts THEN jsonData.products ELSE <<>>
AddonIdsOf(jsonData) ==
  IF jsonData.hasAddons
  THEN {jsonData.addons[i].id : i \in 1..Len(jsonData.addons)}
  ELSE {}

\* new ProductLookupService() of the enriched variant
NewEnriched ==
  /\ variant = "none"
  /\ variant' = "enriched"
  /\ data' = Undefined
  /\ criteriaToProductId' = EmptyMap
  /\ productIdToCriteria' = EmptyMap
  /\ addonsMap' = EmptyMap
  /\ UNCHANGED <<loaded, loadedAddons, call, result>>

\* initialize(jsonData) of the enriched variant
InitializeEnriched(jsonData) ==
  /\ variant = "enriched"
  /\ Len(loaded) + Len(ProductsOf(jsonData)) <= MaxLoaded
  /\ data' = Some(jsonData)
  /\ addonsMap' = IF jsonData.hasAddons
                  THEN RegisterAddons(jsonData.addons, addonsMap)
                  ELSE addonsMap
  /\ \E maps \in {IF jsonData.hasProducts
                    THEN RegisterProducts(jsonData.products,
                                          productIdToCriteria, criteriaToProductId)
                    ELSE <<productIdToCriteria, criteriaToProductId>>} :
        /\ productIdToCriteria' = maps[1]
        /\ criteriaToProductId' = maps[2]
  /\ loaded' = loaded \o ProductsOf(jsonData)
  /\ loadedAddons' = loadedAddons \cup AddonIdsOf(jsonData)
  /\ UNCHANGED <<variant, call, result>>

\* initialize() of the plain variant: the two maps after it
InitializePlainMaps(jsonData, idToCriteria, criteriaToId) ==
  IF ~jsonData.hasProducts THEN <<idToCriteria, criteriaToId>>
  ELSE RegisterProducts(jsonData.products, idToCriteria, criteriaToId)

\* new ProductLookupService(jsonData) of the plain variant
NewPlain(jsonData) ==
  /\ variant = "none"
  /\ variant' = "plain"
  /\ data' = Some(jsonData)
  /\ \E maps \in {InitializePlainMaps(jsonData, EmptyMap, EmptyMap)} :
        /\ productIdToCriteria' = maps[1]
        /\ criteriaToProductId' = maps[2]
  /\ loaded' = ProductsOf(jsonData)
  /\ UNCHANGED <<addonsMap, loadedAddons, call, result>>

\* a further call of initialize() on a plain service
InitializePlain ==
  /\ variant = "plain"
  /\ Len(loaded) + Len(ProductsOf(ValueOf(data))) <= MaxLoaded
  /\ \E maps \in {InitializePlainMaps(ValueOf(data),
                                        productIdToCriteria, criteriaToProductId)} :
        /\ productIdToCriteria' = maps[1]
        /\ criteriaToProductId' = maps[2]
  /\ loaded' = loaded \o ProductsOf(ValueOf(data))
  /\ UNCHANGED <<variant, data, addonsMap, loadedAddons, call, result>>

Next ==
  \/ NewEnriched
  \/ \E d \in Documents : InitializeEnriched(d)
  \/ \E d \in Documents : NewPlain(d)
  \/ InitializePlain

Spec == Init /\ [][Next]_vars

----------------------------------------------------------------------------
(* What the claims speak of *)

\* all objects with distinct keys from K and values from V, in every
\* insertion order
Objects(K, V) ==
  { o \in SeqsUpTo(K \X V, Cardinality(K)) :
      \A i, j \in 1..Len(o) : i # j => o[i][1] # o[j][1] }

\* the criteria and ids the queries are asked with ("p3" is in no document)
QueryCriteria == Objects({KeyA, KeyB}, {Val1, Val2}) \cup {CriteriaJoined}
QueryIds == ProductIds \cup {"p3"}

\* the products sequence of the document last initialized with
CurrentProducts == IF IsDefined(data) THEN ProductsOf(ValueOf(data)) ELSE <<>>
CurrentAddonIds == IF IsDefined(data) THEN AddonIdsOf(ValueOf(data)) ELSE {}

\* the canonical keys of the product records and of the query criteria
ProductKeys == [p \in Products |-> generateCriteriaKey(p.matchCriteria)]
QueryKeys == [c \in QueryCriteria |-> generateCriteriaKey(c)]
KeyOfProduct(p) == ProductKeys[p]

\* ps[i] is the last product of ps with its canonical key / with its id
LastWithKey(ps, i) ==
  \A j \in (i + 1)..Len(ps) : KeyOfProduct(ps[j]) # KeyOfProduct(ps[i])
LastWithId(ps, i) == \A j \in (i + 1)..Len(ps) : ps[j].id # ps[i].id
\* ps[i] is the first product of ps with its id
FirstWithId(ps, i) == \A j \in 1..(i - 1) : ps[j].id # ps[i].id

IsPresent(r) == r.kind = "return" /\ IsDefined(r.value)
\* the match criteria a present result of getCriteriaByProductId carries
CriteriaIn(r) ==
  IF variant = "enriched" THEN ValueOf(r.value).matchCriteria ELSE ValueOf(r.value)

----------------------------------------------------------------------------
(* C1: re-initialization replaces the index *)

\* C1 (as claimed): after initialize(D1); initialize(D2) every query answers
\* as if only D2 had been loaded: a criteria that matches no product of D2
\* has no id, an id that is not in D2 has no criteria, and an enriched result
\* uses an addon of D2.
C1_ReinitializeReplaces ==
  (variant = "enriched" /\ IsDefined(data)) =>
    /\ \A c \in QueryCriteria :
         (\A i \in 1..Len(CurrentProducts) :
             KeyOfProduct(CurrentProducts[i]) # QueryKeys[c])
         => getProductIdByCriteria(c) = Absent
    /\ \A id \in QueryIds :
         (\A i \in 1..Len(CurrentProducts) : CurrentProducts[i].id # id)
         => getCriteriaByProductId(id) = Absent
    /\ \A id \in QueryIds :
         IsPresent(getCriteriaByProductId(id))
         => ValueOf(getCriteriaByProductId(id).value).addon.id \in CurrentAddonIds

----------------------------------------------------------------------------
(* C2: round trip from criteria to id *)

\* C2 (as claimed): for every product P of the document,
\* getProductIdByCriteria(P.matchCriteria) returns P.id.
C2_RoundTripEveryProduct ==
  \A i \in 1..Len(CurrentProducts) :
     getProductIdByCriteria(CurrentProducts[i].matchCriteria)
       = Returned(Some(CurrentProducts[i].id))

\* C2 (amended): for every product P of the document that no later product
\* of the sequence shares its canonical key with,
\* getProductIdByCriteria(P.matchCriteria) returns P.id.
C2_RoundTripLastWithKey ==
  \A i \in 1..Len(CurrentProducts) :
     LastWithKey(CurrentProducts, i)
     => getProductIdByCriteria(CurrentProducts[i].matchCriteria)
          = Returned(Some(CurrentProducts[i].id))

\* two products with different ids and one canonical key were loaded, and the
\* criteria of the first one now give the id of the second
C2_Witness ==
  /\ Len(CurrentProducts) = 2
  /\ CurrentProducts[1].id # CurrentProducts[2].id
  /\ KeyOfProduct(CurrentProducts[1]) = KeyOfProduct(CurrentProducts[2])
  /\ getProductIdByCriteria(CurrentProducts[1].matchCriteria)
       = Returned(Some(CurrentProducts[2].id))

----------------------------------------------------------------------------
(* C3: round trip from id to criteria *)

\* C3 (as claimed): for every product P of the document,
\* getCriteriaByProductId(P.id) is present and carries P.matchCriteria.
C3_RoundTripEveryProduct ==
  \A i \in 1..Len(CurrentProducts) :
     /\ IsPresent(getCriteriaByProductId(CurrentProducts[i].id))
     /\ CriteriaIn(getCriteriaByProductId(CurrentProducts[i].id))
          = CurrentProducts[i].matchCriteria

\* the addon type of the first product of the document with this id has been
\* registered as an addon
AddonOfFirstLoaded(id) ==
  \E i \in 1..Len(CurrentProducts) :
     /\ CurrentProducts[i].id = id
     /\ FirstWithId(CurrentProducts, i)
     /\ CurrentProducts[i].addonType \in loadedAddons

\* C3 (amended): for every product P of the document that no later product
\* shares its id with: the plain getCriteriaByProductId(P.id) returns
\* P.matchCriteria; the enriched one returns a result whose matchCriteria is
\* P.matchCriteria when the addon type of the first product with that id names
\* a registered addon, and is absent otherwise.
C3_RoundTripLastWithId ==
  \A i \in 1..Len(CurrentProducts) :
     LastWithId(CurrentProducts, i) =>
       LET r == getCriteriaByProductId(CurrentProducts[i].id)
       IN IF variant = "enriched" /\ ~AddonOfFirstLoaded(CurrentProducts[i].id)
          THEN r = Absent
          ELSE IsPresent(r) /\ CriteriaIn(r) = CurrentProducts[i].matchCriteria

\* an enriched service loaded two products with one id and different criteria,
\* and answers for that id with the criteria of the second
C3_Witness ==
  /\ variant = "enriched"
  /\ Len(CurrentProducts) = 2
  /\ CurrentProducts[1].id = CurrentProducts[2].id
  /\ CurrentProducts[1].matchCriteria # CurrentProducts[2].matchCriteria
  /\ IsPresent(getCriteriaByProductId(CurrentProducts[2].id))
  /\ CriteriaIn(getCriteriaByProductId(CurrentProducts[2].id))
       = CurrentProducts[2].matchCriteria

----------------------------------------------------------------------------
(* C4: search by partial criteria (plain variant) *)

\* the key-value pairs of an object
Pairs(obj) == {obj[i] : i \in 1..Len(obj)}
Range(seq) == {seq[i] : i \in 1..Len(seq)}

\* the loaded products: for every id registered, the id with the criteria of
\* the product registered last with it
LoadedProducts ==
  { [id |-> loaded[k].id, criteria |-> loaded[k].matchCriteria] :
      k \in {j \in 1..Len(loaded) : LastWithId(loaded, j)} }

\* C4: searchByPartialCriteria(partial) returns, once each, exactly the loaded
\* products whose criteria hold every pair of partial; with partial = {} it
\* returns every loaded product once.
C4_SearchByPartialCriteria ==
  variant = "plain" =>
    \A partial \in QueryCriteria :
       LET results == searchByPartialCriteria(partial)
       IN /\ \A i, j \in 1..Len(results) : i # j => results[i].id # results[j].id
          /\ Range(results)
               = {lp \in LoadedProducts : Pairs(partial) \subseteq Pairs(lp.criteria)}
          /\ partial = <<>> => Range(results) = LoadedProducts

\* two products are loaded; {a: "1"} finds both, {b: "2"} only the one that has
\* a key b
C4_Witness ==
  /\ variant = "plain"
  /\ Cardinality(LoadedProducts) = 2
  /\ Len(searchByPartialCriteria(<<<<KeyA, Val1>>>>)) = 2
  /\ Len(searchByPartialCriteria(<<<<KeyB, Val2>>>>)) = 1
  /\ Len(searchByPartialCriteria(<<>>)) = 2

----------------------------------------------------------------------------
(* C5: not found is a value, never a fault *)

\* C5: once initialized, getProductIdByCriteria(C) for a C whose canonical key
\* is the key of no loaded product, and getCriteriaByProductId(id) for an id
\* that is not loaded, return absent and do not raise; the enriched
\* getCriteriaByProductId also returns absent, and does not raise, when the
\* addon type of the product names no loaded addon. What is loaded is what the
\* document last initialized with holds (C1: a new document replaces the old).
C5_NotFoundIsAbsent ==
  (variant # "none" /\ IsDefined(data)) =>
    /\ \A c \in QueryCriteria :
         (\A i \in 1..Len(CurrentProducts) :
             KeyOfProduct(CurrentProducts[i]) # QueryKeys[c])
         => getProductIdByCriteria(c) = Absent
    /\ \A id \in QueryIds :
         (\A i \in 1..Len(CurrentProducts) : CurrentProducts[i].id # id)
         => getCriteriaByProductId(id) = Absent
    /\ variant = "enriched" =>
         \A i \in 1..Len(CurrentProducts) :
            (FirstWithId(CurrentProducts, i)
               /\ CurrentProducts[i].addonType \notin CurrentAddonIds)
            => getCriteriaByProductId(CurrentProducts[i].id) = Absent

----------------------------------------------------------------------------
(* C7: load is last-write-wins and silent *)

\* C7: when several products of the document have one canonical key,
\* getProductIdByCriteria gives the id of the last of them; when several have
\* one id, the criteria stored for the id are those of the last of them; the
\* load raises nothing (initialize completes and the lookups return).
C7_LastWriteWins ==
  \A i \in 1..Len(CurrentProducts) :
     /\ ( /\ \E j \in 1..Len(CurrentProducts) :
               j # i /\ KeyOfProduct(CurrentProducts[j]) = KeyOfProduct(CurrentProducts[i])
          /\ LastWithKey(CurrentProducts, i) )
        => getProductIdByCriteria(CurrentProducts[i].matchCriteria)
             = Returned(Some(CurrentProducts[i].id))
     /\ ( /\ \E j \in 1..Len(CurrentProducts) :
               j # i /\ CurrentProducts[j].id = CurrentProducts[i].id
          /\ LastWithId(CurrentProducts, i) )
        => getCriteriaPlain(CurrentProducts[i].id)
             = Returned(Some(CurrentProducts[i].matchCriteria))

\* a document with two products of one id, different criteria and different
\* canonical keys was loaded; the id has the criteria of the second
C7_Witness ==
  /\ Len(CurrentProducts) = 2
  /\ CurrentProducts[1].id = CurrentProducts[2].id
  /\ KeyOfProduct(CurrentProducts[1]) # KeyOfProduct(CurrentProducts[2])
  /\ getCriteriaPlain(CurrentProducts[1].id)
       = Returned(Some(CurrentProducts[2].matchCriteria))
  /\ getProductIdByCriteria(CurrentProducts[1].matchCriteria)
       = Returned(Some(CurrentProducts[1].id))

----------------------------------------------------------------------------
(* C9: the two maps agree with each other *)

\* C9 (as claimed): whenever getProductIdByCriteria(C) returns an id,
\* getCriteriaByProductId(id) is present and its criteria have the canonical
\* key of C.
C9_MapsAgree ==
  \A c \in QueryCriteria :
     IsPresent(getProductIdByCriteria(c)) =>
       LET r == getCriteriaByProductId(ValueOf(getProductIdByCriteria(c).value))
       IN /\ IsPresent(r)
          /\ generateCriteriaKey(CriteriaIn(r)) = QueryKeys[c]

\* C9 (amended): whenever getProductIdByCriteria(C) returns an id, it is the id
\* of the product registered last with the canonical key of C, and the
\* id -> criteria map holds for it the criteria of the product registered last
\* with that id: the plain getCriteriaByProductId(id) returns them, the
\* enriched one carries them as matchCriteria whenever it returns a result.
\* They have the canonical key of C unless a product registered after the
\* last one with the key of C has the same id.
C9_MapsAgreeUpToOverwrite ==
  \A c \in QueryCriteria :
     IsPresent(getProductIdByCriteria(c)) =>
       LET id == ValueOf(getProductIdByCriteria(c).value)
       IN \E k, m \in 1..Len(loaded) :
             /\ KeyOfProduct(loaded[k]) = QueryKeys[c]
             /\ LastWithKey(loaded, k)
             /\ loaded[k].id = id
             /\ loaded[m].id = id
             /\ LastWithId(loaded, m)
             /\ getCriteriaPlain(id) = Returned(Some(loaded[m].matchCriteria))
             /\ (variant = "enriched" /\ IsPresent(getCriteriaEnriched(id)))
                => ValueOf(getCriteriaEnriched(id).value).matchCriteria
                     = loaded[m].matchCriteria
             /\ m = k =>
                  generateCriteriaKey(ValueOf(getCriteriaPlain(id).value))
                    = QueryKeys[c]

\* an enriched service was initialized more than once; a criteria gives an id
\* whose enriched result is present and has the same canonical key, while
\* another criteria gives an id whose stored criteria have another key
C9_Witness ==
  /\ variant = "enriched"
  /\ Len(loaded) > Len(CurrentProducts)
  /\ \E c \in QueryCriteria :
        /\ IsPresent(getProductIdByCriteria(c))
        /\ IsPresent(getCriteriaByProductId(ValueOf(getProductIdByCriteria(c).value)))
        /\ generateCriteriaKey(CriteriaIn(
             getCriteriaByProductId(ValueOf(getProductIdByCriteria(c).value))))
             = QueryKeys[c]
  /\ \E c \in QueryCriteria :
        /\ IsPresent(getProductIdByCriteria(c))
        /\ generateCriteriaKey(ValueOf(
             getCriteriaPlain(ValueOf(getProductIdByCriteria(c).value)).value))
             # QueryKeys[c]

----------------------------------------------------------------------------
(* C10: an enriched result describes one product *)

\* C10: when the enriched getCriteriaByProductId(id) returns a result, some
\* product P of the document has P.id = id, P.addonType = result.addonType,
\* P.matchCriteria = result.matchCriteria and result.addon.id = P.addonType.
C10_ResultDescribesOneProduct ==
  variant = "enriched" =>
    \A id \in QueryIds :
       IsPresent(getCriteriaByProductId(id)) =>
         LET r == ValueOf(getCriteriaByProductId(id).value)
         IN \E i \in 1..Len(CurrentProducts) :
               /\ CurrentProducts[i].id = id
               /\ CurrentProducts[i].addonType = r.addonType
               /\ CurrentProducts[i].matchCriteria = r.matchCriteria
               /\ r.addon.id = CurrentProducts[i].addonType

----------------------------------------------------------------------------
(* C6: the canonical key does not depend on the insertion order *)

KeyAB == <<"a", "b">>

\* the criteria the key codec is called with: up to three keys, of which one
\* is a proper prefix of another, in every insertion order
KeyCriteria == Objects({KeyA, KeyAB, KeyB}, {Val1, Val2})

\* a plain service right after new ProductLookupService(jsonData), and the
\* criteria of a lookup that is about to be made
InitKey ==
  /\ variant = "plain"
  /\ data \in {Some(d) : d \in Documents}
  /\ productIdToCriteria = InitializePlainMaps(ValueOf(data), EmptyMap, EmptyMap)[1]
  /\ criteriaToProductId = InitializePlainMaps(ValueOf(data), EmptyMap, EmptyMap)[2]
  /\ addonsMap = EmptyMap
  /\ loaded = ProductsOf(ValueOf(data))
  /\ loadedAddons = {}
  /\ call \in KeyCriteria
  /\ result = Pending

\* lookup.getProductIdByCriteria(call): the canonical key the call computes
\* and what it returns
GetProductIdByCriteriaCall ==
  /\ result = Pending
  /\ result' = Returned([key |-> generateCriteriaKey(call),
                         id |-> getProductIdByCriteria(call)])
  /\ UNCHANGED <<variant, data, criteriaToProductId, productIdToCriteria,
                 addonsMap, loaded, loadedAddons, call>>

NextKey == GetProductIdByCriteriaCall

SpecKey == InitKey /\ [][NextKey]_vars

\* C6: criteria that hold the same key-value pairs in another order have the
\* same canonical key, and getProductIdByCriteria returns the same for them.
C6_KeyIgnoresInsertionOrder ==
  result # Pending =>
    \A c \in KeyCriteria :
       Pairs(c) = Pairs(call) =>
         /\ generateCriteriaKey(c) = result.value.key
         /\ getProductIdByCriteria(c) = result.value.id

\* {b: "2", a: "1"} was looked up in a service that holds {a: "1", b: "2"},
\* and the product was found
C6_Witness ==
  /\ result # Pending
  /\ call = <<<<KeyB, Val2>>, <<KeyA, Val1>>>>
  /\ IsPresent(result.value.id)
  /\ \E i \in 1..Len(CurrentProducts) :
        CurrentProducts[i].matchCriteria = CriteriaAB

----------------------------------------------------------------------------
(* C8: the tree resolver follows one path *)

\* the trees the resolver is called with: a root with up to MaxOptions
\* options, each with no children or with a child node of at most one option;
\* an option's value is "" or "1"
TreeValues == {EmptyStr, Val1}
LeafOptions == {Option(v, "leaf", Undefined) : v \in TreeValues}
LeafNodes ==
  {Node(id, opts) : id \in {KeyA, KeyB},
                    opts \in {<<>>} \cup {<<o>> : o \in LeafOptions}}
RootOptions ==
  {Option(v, "root", ch) : v \in TreeValues,
                           ch \in {Undefined} \cup {Some(n) : n \in LeafNodes}}
Trees ==
  {Node(id, opts) : id \in {KeyA, KeyB}, opts \in SeqsUpTo(RootOptions, MaxOptions)}

\* the criteria of these calls: each of a, b is missing, empty, "1" or "2"
TreeCriteria ==
  { (IF va = Undefined THEN <<>> ELSE <<<<KeyA, ValueOf(va)>>>>)
      \o (IF vb = Undefined THEN <<>> ELSE <<<<KeyB, ValueOf(vb)>>>>) :
      va, vb \in {Undefined, Some(EmptyStr), Some(Val1), Some(Val2)} }

\* a tree and the criteria it is about to be resolved with
InitTree ==
  /\ variant = "none"
  /\ data = Undefined
  /\ criteriaToProductId = EmptyMap
  /\ productIdToCriteria = EmptyMap
  /\ addonsMap = EmptyMap
  /\ loaded = <<>>
  /\ loadedAddons = {}
  /\ call \in Trees \X TreeCriteria
  /\ result = Pending

\* const selectedOptions = {}; traverseTree(tree, criteria, selectedOptions)
TraverseTreeCall ==
  /\ result = Pending
  /\ result' = Returned(traverseTree(call[1], call[2], <<>>))
  /\ UNCHANGED <<variant, data, criteriaToProductId, productIdToCriteria,
                 addonsMap, loaded, loadedAddons, call>>

NextTree == TraverseTreeCall

SpecTree == InitTree /\ [][NextTree]_vars

\* the node's id has a non-empty value in the criteria and an option of the
\* node has that value
HasMatch(node, criteria) ==
  /\ IsDefined(Prop(criteria, node.id))
  /\ ValueOf(Prop(criteria, node.id)) # EmptyStr
  /\ \E i \in 1..Len(node.options) :
        node.options[i].value = ValueOf(Prop(criteria, node.id))

\* the position of the first such option
FirstMatch(node, criteria) ==
  CHOOSE i \in 1..Len(node.options) :
    /\ node.options[i].value = ValueOf(Prop(criteria, node.id))
    /\ \A j \in 1..Len(node.options) :
          node.options[j].value = ValueOf(Prop(criteria, node.id)) => i <= j

\* C8: the resolver records, for the root, the first option whose value is
\* criteria[root.id] and goes on only into the children of that option; it
\* stops at a node whose id has no (or an empty) value in the criteria, that
\* has no option of that value, or whose matched option has no children. So
\* every recorded option has the value criteria gives its criterion id, every
\* key of selectedOptions is a key of criteria, and no node off the path
\* contributes an entry.
C8_SinglePath ==
  result # Pending =>
    LET tree == call[1]
        criteria == call[2]
        first == tree.options[FirstMatch(tree, criteria)]
        child == ValueOf(first.children)
        second == child.options[FirstMatch(child, criteria)]
        selected == result.value
    IN /\ \A e \in 1..Len(selected) :
             /\ Prop(criteria, selected[e][1]) = Some(selected[e][2].value)
             /\ selected[e][2].value # EmptyStr
             /\ \A f \in 1..Len(selected) : e # f => selected[e][1] # selected[f][1]
       /\ ~HasMatch(tree, criteria) => selected = <<>>
       /\ (HasMatch(tree, criteria) /\ ~IsDefined(first.children))
             => selected = <<<<tree.id, first>>>>
       /\ (HasMatch(tree, criteria) /\ IsDefined(first.children)
             /\ ~HasMatch(child, criteria))
             => selected = <<<<tree.id, first>>>>
       /\ (HasMatch(tree, criteria) /\ IsDefined(first.children)
             /\ HasMatch(child, criteria))
             => IF child.id = tree.id
                THEN selected = <<<<child.id, second>>>>
                ELSE selected = <<<<tree.id, first>>, <<child.id, second>>>>

\* the root has two options of the value the criteria give, with different
\* children; the resolver took the first and its child, and recorded both
C8_Witness ==
  /\ result # Pending
  /\ Len(call[1].options) = 2
  /\ call[1].options[1].value = call[1].options[2].value
  /\ call[1].options[1].children # call[1].options[2].children
  /\ IsDefined(call[1].options[2].children)
  /\ Len(result.value) = 2
  /\ result.value[1] = <<call[1].id, call[1].options[1]>>

====
